---- MODULE Spec2Model ----
(***************************************************************************)
(* A model of json_schema_to_pydantic: the reference resolver, the type    *)
(* resolver, the combiner handler and the model builder.                    *)
(*                                                                         *)
(* A JSON value is a tagged record.  Dicts are the only mutable values of  *)
(* the schema, so they live in a heap (an object per dict, addressed by    *)
(* the path at which the caller's document held it) and are referred to    *)
(* by pointer; every other value is held immediately.                      *)
(***************************************************************************)
EXTENDS Integers, Sequences, FiniteSets, TLC

VARIABLES heap, heap0, processing_refs, stack, ret, result, arg, out

vars == <<heap, heap0, processing_refs, stack, ret, result, arg, out>>

(***************************************************************************)
(* JSON values.  A string is a sequence of chunks: the characters # / ~ 0  *)
(* and 1 are chunks of their own wherever they occur, so that startswith,  *)
(* split and replace can be computed as the code computes them.            *)
(***************************************************************************)
Str(s) == [t |-> "str", c |-> <<s>>]
StrC(chunks) == [t |-> "str", c |-> chunks]
Null == [t |-> "null"]
Bool(b) == [t |-> "bool", b |-> b]
Num(n) == [t |-> "int", n |-> n]
List(v) == [t |-> "list", v |-> v]
Dict(d) == [t |-> "dict", d |-> d]
Ptr(a) == [t |-> "ptr", a |-> a]
NoDict == [x \in {} |-> Null]

IdxName(i) == CASE i = 1 -> "0" [] i = 2 -> "1" [] i = 3 -> "2" [] OTHER -> "3"

RECURSIVE DictPaths(_, _)
DictPaths(v, p) ==
    IF v.t = "dict"
    THEN {p} \cup UNION {DictPaths(v.d[k], Append(p, k)) : k \in DOMAIN v.d}
    ELSE IF v.t = "list"
    THEN UNION {DictPaths(v.v[i], Append(p, IdxName(i))) : i \in DOMAIN v.v}
    ELSE {}

RECURSIVE Flat(_, _)
Flat(v, p) ==
    IF v.t = "dict" THEN Ptr(p)
    ELSE IF v.t = "list"
    THEN List([i \in DOMAIN v.v |-> Flat(v.v[i], Append(p, IdxName(i)))])
    ELSE v

RECURSIVE At(_, _, _)
At(v, p, i) ==
    IF i > Len(p) THEN v
    ELSE IF v.t = "dict" THEN At(v.d[p[i]], p, i + 1)
    ELSE At(v.v[CHOOSE j \in DOMAIN v.v : IdxName(j) = p[i]], p, i + 1)

\* The heap holding the dicts of one caller-owned document named `name`.
LoadObj(name, doc) ==
    [a \in {<<name>> \o p : p \in DictPaths(doc, <<>>)} |->
        LET p == Tail(a)
            d == At(doc, p, 1).d
        IN [k \in DOMAIN d |-> Flat(d[k], Append(a, k))]]

\* The tree a heap value stands for, cut below depth n.
RECURSIVE Unfold(_, _, _)
Unfold(h, v, n) ==
    IF v.t = "ptr"
    THEN IF n = 0 THEN [t |-> "cut"]
         ELSE Dict([k \in DOMAIN h[v.a] |-> Unfold(h, h[v.a][k], n - 1)])
    ELSE IF v.t = "list"
    THEN List([i \in DOMAIN v.v |-> Unfold(h, v.v[i], n)])
    ELSE v

Has(d, k) == k \in DOMAIN d
Get(d, k, dflt) == IF k \in DOMAIN d THEN d[k] ELSE dflt

(***************************************************************************)
(* Python strings as the reference resolver uses them.                     *)
(***************************************************************************)
\* ref.startswith("#")
StartsWithHash(ref) == Len(ref) > 0 /\ ref[1] = "#"

\* s.split("/"): the segments between the "/" chunks, empty ones included.
RECURSIVE SplitFrom(_, _, _, _)
SplitFrom(s, i, cur, acc) ==
    IF i > Len(s) THEN Append(acc, cur)
    ELSE IF s[i] = "/" THEN SplitFrom(s, i + 1, <<>>, Append(acc, cur))
    ELSE SplitFrom(s, i + 1, Append(cur, s[i]), acc)
Split(s) == SplitFrom(s, 1, <<>>, <<>>)

\* s.replace(a + b, c): left to right, non-overlapping.
RECURSIVE Replace2(_, _, _, _, _)
Replace2(s, i, a, b, c) ==
    IF i > Len(s) THEN <<>>
    ELSE IF i < Len(s) /\ s[i] = a /\ s[i + 1] = b
    THEN <<c>> \o Replace2(s, i + 2, a, b, c)
    ELSE <<s[i]>> \o Replace2(s, i + 1, a, b, c)

\* part.replace("~1", "/").replace("~0", "~")
Unescape(part) == Replace2(Replace2(part, 1, "~", "1", "/"), 1, "~", "0", "~")

\* The dict key a chunk sequence spells.  A one-chunk string is its chunk;
\* the longer spellings that occur as keys are listed.
KeyOf(chunks) ==
    CASE Len(chunks) = 0 -> ""
      [] Len(chunks) = 1 -> chunks[1]
      [] chunks = <<"a", "/", "b">> -> "a/b"
      [] chunks = <<"a", "~", "b">> -> "a~b"
      [] OTHER -> "<no such key>"

\* ref.split("/")[1:]
RefPath(ref) == Tail(Split(ref))

(***************************************************************************)
(* Errors and results.                                                     *)
(***************************************************************************)
Err(kind, msg, ref) == [k |-> kind, msg |-> msg, ref |-> ref]
Ok(v) == [ok |-> TRUE, v |-> v]
Fail(kind, msg) == [ok |-> FALSE, e |-> Err(kind, msg, <<>>)]

\* Python truthiness of a JSON value (`if not x`).
Falsy(v) ==
    CASE v.t = "null" -> TRUE
      [] v.t = "bool" -> ~v.b
      [] v.t = "int" -> v.n = 0
      [] v.t = "str" -> v.c = <<>> \/ v.c = <<"">>
      [] v.t = "list" -> v.v = <<>>
      [] v.t = "dict" -> DOMAIN v.d = {}
      [] OTHER -> FALSE

(***************************************************************************)
(* Python types, as the typing module builds them.                         *)
(***************************************************************************)
Prim(n) == [k |-> n]
TAny == [k |-> "Any"]
NoneType == [k |-> "NoneType"]

\* A sequence without its repeats, first occurrences kept.
RECURSIVE Dedupe(_)
Dedupe(s) ==
    IF s = <<>> THEN <<>>
    ELSE LET front == Dedupe(SubSeq(s, 1, Len(s) - 1))
             last == s[Len(s)]
         IN IF \E i \in DOMAIN front : front[i] = last THEN front ELSE Append(front, last)

RECURSIVE FlattenUnion(_)
FlattenUnion(ts) ==
    IF ts = <<>> THEN <<>>
    ELSE (IF Head(ts).k = "Union" THEN Head(ts).of ELSE <<Head(ts)>>) \o FlattenUnion(Tail(ts))

\* typing.Union[ts]: members of member unions are taken up, repeats dropped, and
\* a union of one type is that type.
Union(ts) ==
    LET m == Dedupe(FlattenUnion(ts))
    IN IF Len(m) = 1 THEN m[1] ELSE [k |-> "Union", of |-> m]

\* typing.Optional[X] is Union[X, None].
Optional(ty) == Union(<<ty, NoneType>>)
IsNullable(ty) == ty.k = "Union" /\ \E i \in DOMAIN ty.of : ty.of[i] = NoneType
Literal(vals) == [k |-> "Literal", vals |-> vals]
TList(ty) == [k |-> "List", of |-> ty]
TSet(ty) == [k |-> "Set", of |-> ty]

FormatMap(f) ==
    CASE f = Str("date-time") -> Prim("datetime")
      [] f = Str("email") -> Prim("str")
      [] f = Str("uri") -> Prim("AnyUrl")
      [] f = Str("uuid") -> Prim("UUID")
      [] OTHER -> Prim("str")

TypeMap(t) ==
    CASE t = Str("string") -> Ok(Prim("str"))
      [] t = Str("integer") -> Ok(Prim("int"))
      [] t = Str("number") -> Ok(Prim("float"))
      [] t = Str("boolean") -> Ok(Prim("bool"))
      [] t = Str("object") -> Ok(Prim("dict"))
      [] OTHER -> Ok(Prim("str"))

\* [t for t in types if t != "null"]
OtherTypes(types) == SelectSeq(types, LAMBDA t : t # Str("null"))
InList(x, l) == \E i \in DOMAIN l : l[i] = x

\* The list branch entered whether or not the list holds "null".
NullGuardAlways(types) == TRUE

\* The list branch's guard: `if "null" in types`.
NullGuard(types) == InList(Str("null"), types)

RECURSIVE ResolveType(_)
ResolveType(schema) ==
    IF schema.t # "dict" THEN Fail("TypeError", "invalid schema")
    ELSE LET d == schema.d
             ty == Get(d, "type", Null)
         IN
    IF Has(d, "const")
    THEN IF d["const"] = Null THEN Ok(Optional(TAny)) ELSE Ok(Literal(<<d["const"]>>))
    ELSE IF ty = Str("null") THEN Ok(Optional(TAny))
    ELSE IF ty.t = "list"
    THEN LET other == OtherTypes(ty.v)
             inner == ResolveType(Dict([x \in {"type"} |-> other[1]]))
         IN IF NullGuard(ty.v) /\ Len(other) = 1
            THEN IF inner.ok THEN Ok(Optional(inner.v)) ELSE inner
            ELSE Fail("TypeError", "unsupported type combination")
    ELSE IF Has(d, "enum")
    THEN IF Falsy(d["enum"]) THEN Fail("TypeError", "empty enum")
         ELSE Ok(Literal(d["enum"].v))
    ELSE IF Falsy(ty) THEN Fail("TypeError", "schema must specify a type")
    ELSE IF ty = Str("array")
    THEN LET items == Get(d, "items", Null)
             item == ResolveType(items)
         IN IF Falsy(items) THEN Fail("TypeError", "array without items")
            ELSE IF ~item.ok THEN item
            ELSE IF ~Falsy(Get(d, "uniqueItems", Bool(FALSE))) THEN Ok(TSet(item.v))
            ELSE Ok(TList(item.v))
    ELSE IF ty = Str("string") /\ Has(d, "format") THEN Ok(FormatMap(d["format"]))
    ELSE TypeMap(ty)

(***************************************************************************)
(* Field descriptors and model types.                                      *)
(***************************************************************************)
Undefined == [t |-> "undefined"]
\* pydantic.Field(**kwargs): a field without a default is a required field.
Field(default, description, kw) == [default |-> default, description |-> description, kw |-> kw]
IsRequired(fi) == fi.default = Undefined
Model(name, fields, extra, doc) ==
    [k |-> "model", name |-> name, fields |-> fields, extra |-> extra, doc |-> doc]
RootModel(ty) == [k |-> "RootModel", of |-> ty]
Discriminated(ty) == [k |-> "Annotated", of |-> ty, discriminator |-> "type"]

\* The constraint builder: either a type that replaces the field's type or
\* the validation keywords of the schema.
ConstraintKeys == {"minimum", "maximum", "minLength", "maxLength", "pattern"}
BuildConstraints(schema) ==
    IF Get(schema.d, "format", Null) = Str("email")
    THEN [isType |-> TRUE, ty |-> Prim("EmailStr"), kw |-> NoDict]
    ELSE [isType |-> FALSE, ty |-> TAny,
          kw |-> [k \in DOMAIN schema.d \cap ConstraintKeys |-> schema.d[k]]]

\* The constraint builder's merge of a property declared by two branches.
MergeConstraints(a, b) == Dict(b.d @@ a.d)

\* A schema's own default never looked at.
NoDeclaredDefault(d) == FALSE

\* `"default" in schema`: the branch that keeps the schema's own default.
DeclaresDefault(d) == Has(d, "default")

BuildFieldInfo(field_schema, required) ==
    LET d == field_schema.d
        c == BuildConstraints(field_schema)
        kw == IF c.isType THEN NoDict ELSE c.kw
        description == Get(d, "description", Null)
    IN IF DeclaresDefault(d) THEN Field(d["default"], description, kw)
       ELSE IF ~required THEN Field(Null, description, kw)
       ELSE Field(Undefined, description, kw)

\* `prop_schema.get("name") not in required_fields`
NameNotRequired(d, required_fields) == ~InList(Get(d, "name", Null), required_fields)

ConvertProperty(prop_schema, required_fields) ==
    LET d == prop_schema.d
        c == BuildConstraints(prop_schema)
        description == Get(d, "description", Null)
        resolved == ResolveType(prop_schema)
        python_type == IF c.isType THEN c.ty
                       ELSE IF Has(d, "const") THEN Literal(<<d["const"]>>)
                       ELSE resolved.v
        kw == IF c.isType \/ Has(d, "const") THEN NoDict ELSE c.kw
    IN IF ~resolved.ok THEN resolved
       ELSE IF DeclaresDefault(d)
       THEN Ok([ty |-> python_type, fi |-> Field(d["default"], description, kw)])
       ELSE IF NameNotRequired(d, required_fields)
       THEN Ok([ty |-> Optional(python_type), fi |-> Field(Null, description, kw)])
       ELSE Ok([ty |-> python_type, fi |-> Field(Undefined, description, kw)])

\* A mapping of conversions: the mapping of their values, or the error of a
\* conversion that failed (the first one, in the dict's insertion order).
Collect(conv) ==
    IF \E n \in DOMAIN conv : ~conv[n].ok
    THEN conv[CHOOSE n \in DOMAIN conv : ~conv[n].ok]
    ELSE Ok([n \in DOMAIN conv |-> conv[n].v])

\* The merged properties of the branches 1..n of an allOf list.
RECURSIVE MergedProperties(_, _)
MergedProperties(schemas, n) ==
    IF n = 0 THEN NoDict
    ELSE LET before == MergedProperties(schemas, n - 1)
             properties == Get(schemas[n].d, "properties", Dict(NoDict)).d
         IN [name \in DOMAIN before \cup DOMAIN properties |->
                IF name \in DOMAIN before /\ name \in DOMAIN properties
                THEN MergeConstraints(before[name], properties[name])
                ELSE IF name \in DOMAIN before THEN before[name]
                ELSE properties[name]]

\* The required_fields set handle_all_of accumulates.
RequiredUnion(schemas) ==
    UNION {{r[i] : i \in DOMAIN r} : r \in {Get(schemas[j].d, "required", List(<<>>)).v : j \in DOMAIN schemas}}

\* The required_fields argument handle_all_of gives _convert_property.
AllOfRequiredArg(schemas) == <<>>

HandleAllOf(schemas) ==
    IF Falsy(schemas) THEN Fail("CombinerError", "allOf must contain at least one schema")
    ELSE IF \E i \in DOMAIN schemas.v : schemas.v[i].t # "dict"
    THEN Fail("CombinerError", "invalid schema in allOf")
    ELSE LET merged == MergedProperties(schemas.v, Len(schemas.v))
             defs == Collect([n \in DOMAIN merged |->
                         ConvertProperty(merged[n], AllOfRequiredArg(schemas.v))])
         IN IF ~defs.ok THEN defs
            ELSE Ok(Model(Str("AllOfModel"), defs.v, "forbid", Null))

\* The required_fields argument handle_any_of gives _convert_property.
AnyOfRequiredArg(schema) == <<>>

\* One alternative of an anyOf list.
AnyOfAlternative(schema) ==
    IF Get(schema.d, "type", Null) = Str("object")
    THEN LET properties == Get(schema.d, "properties", Dict(NoDict)).d
             defs == Collect([n \in DOMAIN properties |->
                         ConvertProperty(properties[n], AnyOfRequiredArg(schema))])
         IN IF ~defs.ok THEN defs
            ELSE Ok(Model(Str("AnyOfModel"), defs.v, "forbid", Null))
    ELSE ResolveType(schema)

\* The loop of handle_any_of over the alternatives from i on.
RECURSIVE AnyOfTypes(_, _)
AnyOfTypes(schemas, i) ==
    IF i > Len(schemas) THEN Ok(<<>>)
    ELSE IF schemas[i].t # "dict" THEN Fail("CombinerError", "invalid schema in anyOf")
    ELSE LET alt == AnyOfAlternative(schemas[i])
             rest == AnyOfTypes(schemas, i + 1)
         IN IF ~alt.ok THEN alt
            ELSE IF ~rest.ok THEN rest
            ELSE Ok(<<alt.v>> \o rest.v)

HandleAnyOf(schemas) ==
    IF Falsy(schemas) THEN Fail("CombinerError", "anyOf must contain at least one schema")
    ELSE LET types == AnyOfTypes(schemas.v, 1)
         IN IF ~types.ok THEN types ELSE Ok(Union(types.v))

\* variant_models[key] = model on an insertion-ordered dict.
PutVariant(models, key, model) ==
    IF \E i \in DOMAIN models : models[i].key = key
    THEN [i \in DOMAIN models |-> IF models[i].key = key THEN [key |-> key, model |-> model] ELSE models[i]]
    ELSE Append(models, [key |-> key, model |-> model])

\* f"Variant_{type_const}"
VariantName(type_const) == [t |-> "fstr", prefix |-> "Variant_", of |-> type_const]

\* `if not type_const`
NoDiscriminator(type_const) == Falsy(type_const)

\* handle_one_of around its loop: the empty list, and the wrapping of the
\* variant models the loop built.
WrapOneOf(schemas, variants) ==
    IF Falsy(schemas) THEN Fail("CombinerError", "oneOf must contain at least one schema")
    ELSE IF ~variants.ok THEN variants
    ELSE IF Len(variants.v) = 1 THEN Ok(RootModel(variants.v[1].model))
    ELSE Ok(RootModel(Discriminated(
             [k |-> "Union", of |-> [i \in DOMAIN variants.v |-> variants.v[i].model]])))

\* The field of one property of a oneOf variant; `nested` is what
\* handle_one_of gives for the property.
VariantField(name, prop_schema, required, type_const, nested) ==
    LET description == Get(prop_schema.d, "description", Null)
    IN IF name = "type"
       THEN Ok([ty |-> Literal(<<type_const>>), fi |-> Field(type_const, description, NoDict)])
       ELSE IF Has(prop_schema.d, "oneOf")
       THEN IF ~nested.ok THEN nested
            ELSE Ok([ty |-> nested.v, fi |-> Field(Undefined, Null, NoDict)])
       ELSE LET conv == ConvertProperty(prop_schema, required)
            IN IF ~conv.ok THEN conv
               ELSE IF InList(Str(name), required)
               THEN Ok([ty |-> conv.v.ty, fi |-> Field(Undefined, description, NoDict)])
               ELSE conv

OneOfList_(schema) == Get(schema.d, "oneOf", List(<<>>))

\* The loop of handle_one_of over the variants from i on.
RECURSIVE OneOfVariants(_, _, _)
OneOfVariants(schemas, i, models) ==
    IF i > Len(schemas) THEN Ok(models)
    ELSE IF schemas[i].t # "dict" THEN Fail("CombinerError", "invalid schema in oneOf")
    ELSE LET properties == Get(schemas[i].d, "properties", Dict(NoDict)).d
             type_const == Get(Get(properties, "type", Dict(NoDict)).d, "const", Null)
             required == Get(schemas[i].d, "required", List(<<>>)).v
             fields == Collect([n \in DOMAIN properties |->
                           VariantField(n, properties[n], required, type_const,
                               IF n # "type" /\ Has(properties[n].d, "oneOf")
                               THEN WrapOneOf(OneOfList_(properties[n]),
                                              OneOfVariants(OneOfList_(properties[n]).v, 1, <<>>))
                               ELSE Null)])
         IN IF NoDiscriminator(type_const)
            THEN Fail("CombinerError", "each oneOf variant must have a type const")
            ELSE IF ~fields.ok THEN fields
            ELSE OneOfVariants(schemas, i + 1,
                    PutVariant(models, type_const,
                        Model(VariantName(type_const), fields.v, "forbid", Null)))

HandleOneOf(schema) ==
    WrapOneOf(OneOfList_(schema), OneOfVariants(OneOfList_(schema).v, 1, <<>>))

(***************************************************************************)
(* The model builder's dispatch on the keys of a schema node.              *)
(***************************************************************************)
\* The dispatch with anyOf and oneOf looked for before allOf.
DispatchAllOfLast(keys) ==
    IF "anyOf" \in keys THEN "anyOf"
    ELSE IF "oneOf" \in keys THEN "oneOf"
    ELSE IF "allOf" \in keys THEN "allOf"
    ELSE "plain"

\* create_pydantic_model, after the reference is resolved.
Dispatch(keys) ==
    IF "allOf" \in keys THEN "allOf"
    ELSE IF "anyOf" \in keys THEN "anyOf"
    ELSE IF "oneOf" \in keys THEN "oneOf"
    ELSE "plain"

\* _get_field_type, after the reference is resolved.
FieldDispatch(d) ==
    IF "allOf" \in DOMAIN d THEN "allOf"
    ELSE IF "anyOf" \in DOMAIN d THEN "anyOf"
    ELSE IF "oneOf" \in DOMAIN d THEN "oneOf"
    ELSE IF Get(d, "type", Null) = Str("object") /\ "properties" \in DOMAIN d THEN "nested"
    ELSE "leaf"

\* The combiner handler the dispatch delegates to, on the unfolded node.
Combine(which, node) ==
    CASE which = "allOf" -> HandleAllOf(node.d["allOf"])
      [] which = "anyOf" -> HandleAnyOf(node.d["anyOf"])
      [] which = "oneOf" -> HandleOneOf(node)

(***************************************************************************)
(* The caller's documents.                                                 *)
(***************************************************************************)
DefRef(name) == <<"#", "/", "definitions", "/">> \o name
RefTo(name) == Dict("$ref" :> StrC(DefRef(name)))
Typed(n) == Dict("type" :> Str(n))
Object(props) == Dict("type" :> Str("object") @@ "properties" :> Dict(props))

AllOfList == List(<<Dict("properties" :> Dict("p" :> Typed("string")) @@ "required" :> List(<<Str("p")>>)),
                    Dict("properties" :> Dict("q" :> Typed("integer")))>>)
AnyOfList == List(<<Typed("string"), Typed("integer")>>)
OneOfList == List(<<Dict("properties" :> Dict("type" :> Dict("const" :> Str("cat")) @@ "m" :> Typed("string"))
                         @@ "required" :> List(<<Str("m")>>))>>)
Combiners(keys) == [k \in keys |->
    CASE k = "allOf" -> AllOfList [] k = "anyOf" -> AnyOfList [] k = "oneOf" -> OneOfList]

Definitions ==
    "Self" :> RefTo(<<"Self">>)
 @@ "P" :> RefTo(<<"Q">>)
 @@ "Q" :> RefTo(<<"P">>)
 @@ "A" :> Dict(Object("x" :> RefTo(<<"B">>) @@ "n" :> Typed("string")).d
                @@ "required" :> List(<<Str("x")>>) @@ "title" :> Str("A"))
 @@ "B" :> Object("y" :> RefTo(<<"C">>))
 @@ "Alias" :> RefTo(<<"C">>)
 @@ "C" :> Dict("type" :> Str("string") @@ "enum" :> List(<<Str("u"), Str("v")>>))
 @@ "Loop" :> Object("me" :> RefTo(<<"Loop">>))
 @@ "Half" :> Object("ok" :> RefTo(<<"C">>) @@ "bad" :> RefTo(<<"Missing">>))
 @@ "a/b" :> Typed("integer")
 @@ "Nest" :> Object("child" :> Object("next" :> RefTo(<<"Nest">>)))
 @@ "D7" :> Dict(Combiners({"allOf", "anyOf", "oneOf"}) @@ Object("k" :> Typed("boolean")).d)
 @@ "D3" :> Dict(Combiners({"anyOf", "oneOf"}) @@ Object("k" :> Typed("boolean")).d)
 @@ "D1" :> Dict(Combiners({"oneOf"}) @@ Object("k" :> Typed("boolean")).d)
 @@ "F" :> Object(
        "f7" :> Dict(Combiners({"allOf", "anyOf", "oneOf"}) @@ Object("k" :> Typed("boolean")).d)
     @@ "f3" :> Dict(Combiners({"anyOf", "oneOf"}) @@ Object("k" :> Typed("boolean")).d)
     @@ "f1" :> Dict(Combiners({"oneOf"}) @@ Object("k" :> Typed("boolean")).d)
     @@ "f0" :> Object("k" :> Typed("boolean")))

RootDoc ==
    Dict("definitions" :> Dict(Definitions)
      @@ "title" :> Str("Root")
      @@ "type" :> Str("object")
      @@ "properties" :> Dict("a" :> RefTo(<<"A">>) @@ "s" :> Typed("string"))
      @@ "required" :> List(<<Str("a")>>))

\* The $ref strings the caller's entry schemas hold.
EntryRefs ==
    "Self" :> DefRef(<<"Self">>)
 @@ "P" :> DefRef(<<"P">>)
 @@ "A" :> DefRef(<<"A">>)
 @@ "B" :> DefRef(<<"B">>)
 @@ "Alias" :> DefRef(<<"Alias">>)
 @@ "C" :> DefRef(<<"C">>)
 @@ "Loop" :> DefRef(<<"Loop">>)
 @@ "Half" :> DefRef(<<"Half">>)
 @@ "Esc" :> DefRef(<<"a", "~", "1", "b">>)
 @@ "Nest" :> DefRef(<<"Nest">>)
 @@ "D7" :> DefRef(<<"D7">>)
 @@ "D3" :> DefRef(<<"D3">>)
 @@ "D1" :> DefRef(<<"D1">>)
 @@ "F" :> DefRef(<<"F">>)
 @@ "Missing" :> DefRef(<<"Missing">>)
 @@ "Scalar" :> DefRef(<<"C", "/", "type", "/", "x">>)
 @@ "Elem" :> DefRef(<<"C", "/", "enum", "/", "0">>)
 @@ "Whole" :> <<"#">>
 @@ "Remote" :> <<"definitions", "/", "A">>

RootAddr == <<"root">>
EntryAddr(n) == <<"entry", n>>

\* The heap before any call: the root document and one {"$ref": r} schema
\* per entry.
InitialHeap ==
    LoadObj("root", RootDoc)
    @@ [a \in {EntryAddr(n) : n \in DOMAIN EntryRefs} |-> ("$ref" :> StrC(EntryRefs[a[2]]))]

(***************************************************************************)
(* The call stack.  A frame is one activation of resolve_ref,              *)
(* create_pydantic_model or _get_field_type; `ret` carries a return value  *)
(* or a raised exception from the frame that ended to the one below it.    *)
(***************************************************************************)
\* Python's recursion limit, scaled to the model.
RecursionLimit == 9
\* How deep a heap value is unfolded for the handlers that only read it.
UnfoldDepth == 8

None == [k |-> "none"]
Val(v) == [k |-> "val", v |-> v]
Exc(e) == [k |-> "exc", e |-> e]

Top == stack[Len(stack)]
SetTop(f) == [stack EXCEPT ![Len(stack)] = f]
Pop == SubSeq(stack, 1, Len(stack) - 1)
Running(fn, pc) == stack # <<>> /\ ret = None /\ Top.fn = fn /\ Top.pc = pc
Returned(fn, pc) == stack # <<>> /\ ret.k = "val" /\ Top.fn = fn /\ Top.pc = pc
Tree(v) == Unfold(heap, v, UnfoldDepth)
IsDict(v) == v.t = "ptr"
Keys(v) == DOMAIN heap[v.a]

ResolveFrame(ref, root) ==
    [fn |-> "resolve", pc |-> "enter", ref |-> ref, root |-> root,
     path |-> <<>>, cur |-> Null, props |-> Null, todo |-> {}, name |-> ""]
CreateFrame(schema, root) ==
    [fn |-> "create", pc |-> "start", schema |-> schema, root |-> root,
     props |-> Null, todo |-> {}, name |-> "", field_schema |-> Null, fields |-> NoDict]
FieldFrame(schema, root) == [fn |-> "field", pc |-> "start", schema |-> schema, root |-> root]

\* The top frame, changed to `caller`, calls `callee`; past the recursion
\* limit the call raises RecursionError in the caller.
Call(caller, callee) ==
    IF Len(stack) < RecursionLimit
    THEN /\ stack' = Append(SetTop(caller), callee)
         /\ ret' = None
    ELSE /\ stack' = SetTop(caller)
         /\ ret' = Exc(Err("RecursionError", "maximum recursion depth exceeded", <<>>))

\* The frames whose `finally` removes a ref: resolve_ref inside its try.
InTry(f) == f.fn = "resolve" /\ f.pc # "enter"

\* resolve_ref removing its ref at its end instead of in a `finally`.
FinallyOnReturnOnly(f, refs, raised) == IF InTry(f) /\ ~raised THEN refs \ {f.ref} ELSE refs

\* The in-progress set after frame f is left, by a return or (raised) by an
\* exception: the `finally` clause of resolve_ref runs on both.
Finally(f, refs, raised) == IF InTry(f) THEN refs \ {f.ref} ELSE refs

\* `return v` from the top frame.
Return(v) ==
    /\ stack' = Pop
    /\ ret' = Val(v)
    /\ processing_refs' = Finally(Top, processing_refs, FALSE)

\* `raise e` in the top frame.
Raise(e) ==
    /\ stack' = stack
    /\ ret' = Exc(e)
    /\ processing_refs' = processing_refs

\* A handler's result: its value returned or its error raised.
Finish(r) == IF r.ok THEN Return(r.v) ELSE Raise(r.e)

\* Python's `key in x` and `x.get` on a value that is no dict.
NonDictError(v) ==
    IF v.t \in {"str", "list"}
    THEN Err("AttributeError", "object has no attribute 'get'", <<>>)
    ELSE Err("builtins.TypeError", "argument is not iterable", <<>>)

(******************************** resolve_ref ******************************)
\* resolve_ref without its check of the in-progress set.
NeverProcessing(ref, refs) == FALSE

\* `if ref in self._processing_refs`
AlreadyProcessing(ref, refs) == ref \in refs

ResolveEnter ==
    /\ Running("resolve", "enter")
    /\ LET f == Top IN
       IF ~StartsWithHash(f.ref)
       THEN Raise(Err("ReferenceError", "only local references are supported", f.ref))
       ELSE IF AlreadyProcessing(f.ref, processing_refs)
       THEN Raise(Err("ReferenceError", "circular reference detected", f.ref))
       ELSE /\ processing_refs' = processing_refs \cup {f.ref}
            /\ stack' = SetTop([f EXCEPT !.pc = "walk", !.path = RefPath(f.ref), !.cur = f.root])
            /\ ret' = ret
    /\ UNCHANGED <<heap, heap0, result, arg, out>>

\* `current = current[part]` inside `try ... except KeyError`.
ResolveWalk ==
    /\ Running("resolve", "walk")
    /\ Top.path # <<>>
    /\ LET f == Top
           part == KeyOf(Unescape(Head(f.path)))
       IN IF ~IsDict(f.cur)
          THEN Raise(Err("builtins.TypeError", "indices must be integers", <<>>))
          ELSE IF part \notin Keys(f.cur)
          THEN Raise(Err("ReferenceError", "invalid reference path", f.ref))
          ELSE /\ stack' = SetTop([f EXCEPT !.path = Tail(f.path), !.cur = heap[f.cur.a][part]])
               /\ UNCHANGED <<ret, processing_refs>>
    /\ UNCHANGED <<heap, heap0, result, arg, out>>

ResolveInspect ==
    /\ Running("resolve", "walk")
    /\ Top.path = <<>>
    /\ LET f == Top IN
       IF IsDict(f.cur) /\ "$ref" \in Keys(f.cur)
       THEN /\ Call([f EXCEPT !.pc = "ret_ref"], ResolveFrame(heap[f.cur.a]["$ref"].c, f.root))
            /\ UNCHANGED processing_refs
       ELSE IF IsDict(f.cur) /\ "properties" \in Keys(f.cur)
       THEN /\ stack' = SetTop([f EXCEPT !.pc = "props",
                                          !.props = heap[f.cur.a]["properties"],
                                          !.todo = Keys(heap[f.cur.a]["properties"])])
            /\ UNCHANGED <<ret, processing_refs>>
       ELSE Return(f.cur)
    /\ UNCHANGED <<heap, heap0, result, arg, out>>

\* `current = self.resolve_ref(...)` has returned; `return current`.
ResolveRetRef ==
    /\ Returned("resolve", "ret_ref")
    /\ Return(ret.v)
    /\ UNCHANGED <<heap, heap0, result, arg, out>>

\* One iteration of `for prop_name, prop_schema in properties.items()`.
ResolveProp ==
    /\ Running("resolve", "props")
    /\ \E name \in Top.todo :
        LET f == Top
            prop_schema == heap[f.props.a][name]
            g == [f EXCEPT !.todo = f.todo \ {name}]
        IN IF IsDict(prop_schema) /\ "$ref" \in Keys(prop_schema)
           THEN Call([g EXCEPT !.pc = "ret_prop", !.name = name],
                     ResolveFrame(heap[prop_schema.a]["$ref"].c, f.root))
           ELSE /\ stack' = SetTop(g)
                /\ ret' = ret
    /\ UNCHANGED <<heap, heap0, processing_refs, result, arg, out>>

\* What `properties[prop_name] = self.resolve_ref(...)` stores.
Stored(h, props, name, v) == [h EXCEPT ![props.a][name] = v]

ResolvePropRet ==
    /\ Returned("resolve", "ret_prop")
    /\ heap' = Stored(heap, Top.props, Top.name, ret.v)
    /\ stack' = SetTop([Top EXCEPT !.pc = "props"])
    /\ ret' = None
    /\ UNCHANGED <<heap0, processing_refs, result, arg, out>>

ResolveReturn ==
    /\ Running("resolve", "props")
    /\ Top.todo = {}
    /\ Return(Top.cur)
    /\ UNCHANGED <<heap, heap0, result, arg, out>>

(*************************** create_pydantic_model *************************)
CreateStart ==
    /\ Running("create", "start")
    /\ LET f == Top IN
       IF "$ref" \in Keys(f.schema)
       THEN Call([f EXCEPT !.pc = "ret_ref"], ResolveFrame(heap[f.schema.a]["$ref"].c, f.root))
       ELSE /\ stack' = SetTop([f EXCEPT !.pc = "dispatch"])
            /\ ret' = ret
    /\ UNCHANGED <<heap, heap0, processing_refs, result, arg, out>>

\* `schema = self.reference_resolver.resolve_ref(...)` has returned.
CreateRetRef ==
    /\ Returned("create", "ret_ref")
    /\ stack' = SetTop([Top EXCEPT !.pc = "dispatch", !.schema = ret.v])
    /\ ret' = None
    /\ UNCHANGED <<heap, heap0, processing_refs, result, arg, out>>

CreateDispatch ==
    /\ Running("create", "dispatch")
    /\ LET f == Top
           which == Dispatch(Keys(f.schema))
           node == heap[f.schema.a]
       IN IF ~IsDict(f.schema) THEN Raise(NonDictError(f.schema))
          ELSE IF which # "plain" THEN Finish(Combine(which, Tree(f.schema)))
          ELSE /\ stack' = SetTop([f EXCEPT !.pc = "fields",
                                            !.props = Get(node, "properties", Null),
                                            !.todo = IF Has(node, "properties")
                                                     THEN Keys(node["properties"]) ELSE {}])
               /\ UNCHANGED <<ret, processing_refs>>
    /\ UNCHANGED <<heap, heap0, result, arg, out>>

\* One iteration of `for field_name, field_schema in properties.items()`.
CreateField ==
    /\ Running("create", "fields")
    /\ \E name \in Top.todo :
        LET f == Top
            field_schema == heap[f.props.a][name]
        IN Call([f EXCEPT !.pc = "ret_field", !.todo = f.todo \ {name},
                          !.name = name, !.field_schema = field_schema],
                FieldFrame(field_schema, f.root))
    /\ UNCHANGED <<heap, heap0, processing_refs, result, arg, out>>

\* self._build_field_info(field_schema, field_name in required)
PlainFieldInfo(field_schema, field_name, required) ==
    BuildFieldInfo(field_schema, InList(Str(field_name), required.v))

CreateFieldRet ==
    /\ Returned("create", "ret_field")
    /\ LET f == Top
           node == heap[f.schema.a]
           field_info == PlainFieldInfo(Tree(f.field_schema), f.name,
                                        Tree(Get(node, "required", List(<<>>))))
       IN stack' = SetTop([f EXCEPT !.pc = "fields",
                                    !.fields = (f.name :> [ty |-> ret.v, fi |-> field_info]) @@ f.fields])
    /\ ret' = None
    /\ UNCHANGED <<heap, heap0, processing_refs, result, arg, out>>

\* create_model(title, **fields), with the description as the docstring.
CreateFinish ==
    /\ Running("create", "fields")
    /\ Top.todo = {}
    /\ LET node == heap[Top.schema.a]
           description == Get(node, "description", Null)
       IN Return(Model(Get(node, "title", Str("DynamicModel")), Top.fields, "ignore",
                       IF Falsy(description) THEN Null ELSE description))
    /\ UNCHANGED <<heap, heap0, result, arg, out>>

(****************************** _get_field_type ****************************)
FieldStart ==
    /\ Running("field", "start")
    /\ LET f == Top IN
       IF "$ref" \in Keys(f.schema)
       THEN Call([f EXCEPT !.pc = "ret_ref"], ResolveFrame(heap[f.schema.a]["$ref"].c, f.root))
       ELSE /\ stack' = SetTop([f EXCEPT !.pc = "dispatch"])
            /\ ret' = ret
    /\ UNCHANGED <<heap, heap0, processing_refs, result, arg, out>>

FieldRetRef ==
    /\ Returned("field", "ret_ref")
    /\ stack' = SetTop([Top EXCEPT !.pc = "dispatch", !.schema = ret.v])
    /\ ret' = None
    /\ UNCHANGED <<heap, heap0, processing_refs, result, arg, out>>

FieldDispatchStep ==
    /\ Running("field", "dispatch")
    /\ LET f == Top
           which == FieldDispatch(heap[f.schema.a])
       IN IF ~IsDict(f.schema) THEN Raise(NonDictError(f.schema))
          ELSE IF which = "nested"
          THEN /\ Call([f EXCEPT !.pc = "ret_nested"], CreateFrame(f.schema, f.root))
               /\ UNCHANGED processing_refs
          ELSE IF which = "leaf" THEN Finish(ResolveType(Tree(f.schema)))
          ELSE Finish(Combine(which, Tree(f.schema)))
    /\ UNCHANGED <<heap, heap0, result, arg, out>>

\* `return self.create_pydantic_model(field_schema, root_schema)`
FieldRetNested ==
    /\ Returned("field", "ret_nested")
    /\ Return(ret.v)
    /\ UNCHANGED <<heap, heap0, result, arg, out>>

(************************* exceptions and the caller ***********************)
\* An exception leaves the top frame, running its `finally`.
Unwind ==
    /\ stack # <<>>
    /\ ret.k = "exc"
    /\ Top.fn # "api"
    /\ stack' = Pop
    /\ processing_refs' = Finally(Top, processing_refs, TRUE)
    /\ UNCHANGED <<heap, heap0, ret, result, arg, out>>

ApiFrame(op, entry) == [fn |-> "api", pc |-> "wait", op |-> op, entry |-> entry]

\* builder.create_pydantic_model(schema, root_schema) on an entry schema.
CallCompile ==
    /\ stack = <<>>
    /\ \E n \in DOMAIN EntryRefs :
           stack' = <<ApiFrame("compile", n), CreateFrame(Ptr(EntryAddr(n)), Ptr(RootAddr))>>
    /\ UNCHANGED <<heap, heap0, processing_refs, ret, result, arg, out>>

\* builder.create_pydantic_model(root): root_schema defaults to the schema.
CallCompileRoot ==
    /\ stack = <<>>
    /\ stack' = <<ApiFrame("compile", "root"), CreateFrame(Ptr(RootAddr), Ptr(RootAddr))>>
    /\ UNCHANGED <<heap, heap0, processing_refs, ret, result, arg, out>>

\* builder.reference_resolver.resolve_ref(ref, schema, root_schema)
CallResolveRef ==
    /\ stack = <<>>
    /\ \E n \in DOMAIN EntryRefs :
           stack' = <<ApiFrame("resolve_ref", n), ResolveFrame(EntryRefs[n], Ptr(RootAddr))>>
    /\ UNCHANGED <<heap, heap0, processing_refs, ret, result, arg, out>>

\* The call returns to the caller, or its exception reaches the caller.
ApiDone ==
    /\ stack # <<>>
    /\ Top.fn = "api"
    /\ ret # None
    /\ result' = [op |-> Top.op, entry |-> Top.entry, ret |-> ret]
    /\ stack' = <<>>
    /\ ret' = None
    /\ UNCHANGED <<heap, heap0, processing_refs, arg, out>>

Init ==
    /\ heap = InitialHeap
    /\ heap0 = InitialHeap
    /\ processing_refs = {}
    /\ stack = <<>>
    /\ ret = None
    /\ result = None
    /\ arg = None
    /\ out = None

Next ==
    \/ CallCompile \/ CallCompileRoot \/ CallResolveRef \/ ApiDone \/ Unwind
    \/ ResolveEnter \/ ResolveWalk \/ ResolveInspect \/ ResolveRetRef
    \/ ResolveProp \/ ResolvePropRet \/ ResolveReturn
    \/ CreateStart \/ CreateRetRef \/ CreateDispatch \/ CreateField
    \/ CreateFieldRet \/ CreateFinish
    \/ FieldStart \/ FieldRetRef \/ FieldDispatchStep \/ FieldRetNested

Spec == Init /\ [][Next]_vars

(***************************************************************************)
(* The handlers as functions of their arguments: the argument is drawn     *)
(* at the start and the call made on it.                                   *)
(***************************************************************************)
\* The longest `type` list drawn.
MaxTypes == 3
\* The longest allOf, anyOf and oneOf list drawn.
MaxBranches == 2

Opt(k, present, v) == IF present THEN k :> v ELSE NoDict

TypeNames == {"string", "integer", "number", "boolean", "object", "array", "null", "foo"}
ListNames == {"string", "null", "array", "foo"}
TypeLists == UNION {[1..n -> {Str(x) : x \in ListNames}] : n \in 0..MaxTypes}

\* The leaf schemas given to resolve_type.
LeafTypes == {Null} \cup {Str(x) : x \in TypeNames} \cup {StrC(<<>>)} \cup {List(l) : l \in TypeLists}
LeafSchemas ==
    {Dict(Opt("type", ty # Null, ty)
          @@ Opt("const", c # Undefined, c)
          @@ Opt("enum", e # Undefined, e)
          @@ Opt("items", i, Typed("integer"))) :
        ty \in LeafTypes,
        c \in {Undefined, Null, Str("k")},
        e \in {Undefined, List(<<>>), List(<<Str("u"), Str("v")>>)},
        i \in BOOLEAN}

\* The property schemas of the branches of a combiner.
PropSchemas ==
    {Dict(Opt("type", ty # Null, ty) @@ Opt("default", d # Undefined, d)) :
        ty \in {Null, Str("string")}, d \in {Undefined, Null, Str("dflt")}}
    \cup {Dict("type" :> Str("integer") @@ "name" :> Str("p")),
          Dict("type" :> Str("string") @@ "format" :> Str("email") @@ "description" :> Str("mail"))}
RequiredLists == {<<>>, <<Str("p")>>, <<Str("p"), Str("q")>>}
BranchProps == {Undefined, Typed("string"), Dict("type" :> Str("integer") @@ "default" :> Num(0))}
Branches ==
    {Dict(Opt("properties", pp # Undefined \/ qq # Undefined,
              Dict(Opt("p", pp # Undefined, pp) @@ Opt("q", qq # Undefined, qq)))
          @@ Opt("required", r # <<>>, List(r))) :
        pp \in BranchProps, qq \in BranchProps, r \in RequiredLists}
BranchLists ==
    {List(l) : l \in UNION {[1..n -> Branches] : n \in 0..MaxBranches}}
    \cup {List(<<Typed("string"), Str("string")>>)}

\* An object alternative of anyOf; a variant of oneOf with its discriminator.
AsObject(b) == Dict(("type" :> Str("object")) @@ b.d)
WithTag(b, tag) ==
    Dict(("properties" :> Dict(("type" :> Dict("const" :> tag)) @@ Get(b.d, "properties", Dict(NoDict)).d))
         @@ b.d)
AnyOfLists ==
    {List([i \in DOMAIN l.v |-> IF l.v[i].t = "dict" /\ (i = 1 \/ Has(l.v[i].d, "required"))
                                 THEN AsObject(l.v[i]) ELSE l.v[i]]) : l \in BranchLists}
Tags == <<Str("cat"), Str("dog")>>
OneOfLists ==
    {List([i \in DOMAIN l.v |-> IF l.v[i].t = "dict" /\ (i = 1 \/ Has(l.v[i].d, "required"))
                                 THEN WithTag(l.v[i], Tags[1 + (i % 2)]) ELSE l.v[i]]) : l \in BranchLists}

\* oneOf lists whose discriminators or properties the lists above lack: a
\* constant 0, the same constant twice, a property without a type.
OneOfExtras ==
    {List(<<WithTag(Dict(NoDict), Num(0))>>),
     List(<<WithTag(Dict(NoDict), Str("cat")), WithTag(Dict(NoDict), Num(0))>>),
     List(<<WithTag(Dict("properties" :> Dict("p" :> Typed("string"))), Str("cat")),
            WithTag(Dict("properties" :> Dict("q" :> Typed("string"))), Str("cat"))>>),
     List(<<WithTag(Dict("properties" :> Dict("p" :> Dict(NoDict))), Str("cat"))>>)}

PureArgs ==
    {[op |-> "resolve_type", schema |-> x] : x \in LeafSchemas}
    \cup {[op |-> "build_field_info", schema |-> x, is_required |-> r] : x \in PropSchemas, r \in BOOLEAN}
    \cup {[op |-> "convert_property", schema |-> x, required_fields |-> r] : x \in PropSchemas, r \in RequiredLists}
    \cup {[op |-> "all_of", schemas |-> x] : x \in BranchLists}
    \cup {[op |-> "any_of", schemas |-> x] : x \in AnyOfLists}
    \cup {[op |-> "one_of", schema |-> Dict("oneOf" :> x)] : x \in OneOfLists \cup OneOfExtras}

InitPure ==
    /\ arg \in PureArgs
    /\ out = None
    /\ heap = InitialHeap
    /\ heap0 = InitialHeap
    /\ processing_refs = {}
    /\ stack = <<>>
    /\ ret = None
    /\ result = None

Applied(op, r) ==
    /\ arg.op = op
    /\ out = None
    /\ out' = r
    /\ UNCHANGED <<heap, heap0, processing_refs, stack, ret, result, arg>>

ApplyResolveType == Applied("resolve_type", ResolveType(arg.schema))
ApplyBuildFieldInfo == Applied("build_field_info", Ok(BuildFieldInfo(arg.schema, arg.is_required)))
ApplyConvertProperty == Applied("convert_property", ConvertProperty(arg.schema, arg.required_fields))
ApplyHandleAllOf == Applied("all_of", HandleAllOf(arg.schemas))
ApplyHandleAnyOf == Applied("any_of", HandleAnyOf(arg.schemas))
ApplyHandleOneOf == Applied("one_of", HandleOneOf(arg.schema))

NextPure ==
    \/ ApplyResolveType \/ ApplyBuildFieldInfo \/ ApplyConvertProperty
    \/ ApplyHandleAllOf \/ ApplyHandleAnyOf \/ ApplyHandleOneOf

SpecPure == InitPure /\ [][NextPure]_vars

(***************************************************************************)
(* Properties of the reference resolver and the model builder.             *)
(***************************************************************************)
Circular(ref) == Exc(Err("ReferenceError", "circular reference detected", ref))

\* resolve_ref has just been entered with a ref that a frame below it is
\* still resolving.
ReEntered ==
    /\ Running("resolve", "enter")
    /\ \E i \in 1..(Len(stack) - 1) :
          stack[i].fn = "resolve" /\ stack[i].pc # "enter" /\ stack[i].ref = Top.ref

\* C1: a resolve_ref entered with a ref that is still being resolved below it
\* raises the circular-reference error naming that ref; a raised error is
\* never swallowed on the way to the caller, who gets it instead of a
\* fragment; and compiling {"$ref": "#/definitions/Self"}, where Self is
\* {"$ref": "#/definitions/Self"}, fails with that error.
C1_CircularDetected ==
    [][/\ ReEntered => ret' = Circular(Top.ref)
       /\ (stack # <<>> /\ ret.k = "exc") =>
             \/ ret' = ret /\ stack' # <<>>
             \/ stack' = <<>> /\ result'.ret = ret
       /\ (result' # None /\ result'.entry = "Self") =>
             result'.ret = Circular(DefRef(<<"Self">>))]_vars

\* A compile whose cycle runs through a directly $ref-valued property has
\* ended with the circular-reference error.
C1_Witness ==
    /\ result # None
    /\ result.op = "compile"
    /\ result.entry = "Loop"
    /\ result.ret = Circular(DefRef(<<"Loop">>))

\* C3: between calls the caller's root schema is the tree it was before the
\* first call.
C3_SchemaReadOnly ==
    stack = <<>> =>
        Unfold(heap, Ptr(RootAddr), UnfoldDepth) = Unfold(heap0, Ptr(RootAddr), UnfoldDepth)

\* The refs of the resolve_ref activations that are inside their try block.
Registered ==
    {stack[i].ref : i \in {j \in DOMAIN stack : stack[j].fn = "resolve" /\ stack[j].pc # "enter"}}

\* C4: the in-progress set holds exactly the refs of the resolve_ref calls
\* that are on the stack past their registration, so every call leaves the
\* set as it found it, on a return and on an exception alike, and between
\* top-level calls the set is empty.
C4_ScopedCleanup ==
    /\ processing_refs = Registered
    /\ stack = <<>> => processing_refs = {}

\* A compile that failed inside a nested resolution (a property whose ref
\* has no target) has ended, and the set is empty.
C4_Witness ==
    /\ stack = <<>>
    /\ result # None
    /\ result.op = "compile"
    /\ result.entry = "Half"
    /\ result.ret.k = "exc"
    /\ processing_refs = {}

\* The step hands over to a handler: its value is returned, or its error raised.
Delegated(r) == ret' = (IF r.ok THEN Val(r.v) ELSE Exc(r.e))
NewTop == stack'[Len(stack')]

\* C5: a $ref is resolved first and the dispatch continues on the resolved
\* fragment; there allOf, then anyOf, then oneOf decide, and the first one
\* present is delegated to the combiner handler; the node's own properties
\* are compiled only when none is present.  A property sub-schema goes the
\* same way, then to a nested model, then to the type resolver.
C5_DispatchOrder ==
    [][/\ ((Running("create", "start") \/ Running("field", "start"))
            /\ "$ref" \in Keys(Top.schema) /\ Len(stack) < RecursionLimit) =>
              /\ Len(stack') = Len(stack) + 1
              /\ NewTop.fn = "resolve" /\ NewTop.ref = heap[Top.schema.a]["$ref"].c
       /\ (Returned("create", "ret_ref") \/ Returned("field", "ret_ref")) =>
              /\ NewTop.pc = "dispatch" /\ NewTop.schema = ret.v
       /\ (Running("create", "dispatch") /\ IsDict(Top.schema)) =>
              LET node == Tree(Top.schema) IN
              IF "allOf" \in DOMAIN node.d THEN Delegated(HandleAllOf(node.d["allOf"]))
              ELSE IF "anyOf" \in DOMAIN node.d THEN Delegated(HandleAnyOf(node.d["anyOf"]))
              ELSE IF "oneOf" \in DOMAIN node.d THEN Delegated(HandleOneOf(node))
              ELSE Len(stack') = Len(stack) /\ NewTop.pc = "fields" /\ ret' = None
       /\ (Running("field", "dispatch") /\ IsDict(Top.schema)) =>
              LET node == Tree(Top.schema) IN
              IF "allOf" \in DOMAIN node.d THEN Delegated(HandleAllOf(node.d["allOf"]))
              ELSE IF "anyOf" \in DOMAIN node.d THEN Delegated(HandleAnyOf(node.d["anyOf"]))
              ELSE IF "oneOf" \in DOMAIN node.d THEN Delegated(HandleOneOf(node))
              ELSE IF Get(node.d, "type", Null) = Str("object") /\ "properties" \in DOMAIN node.d
              THEN Len(stack) < RecursionLimit =>
                     NewTop.fn = "create" /\ NewTop.pc = "start" /\ NewTop.schema = Top.schema
              ELSE Delegated(ResolveType(node))]_vars

\* A schema that holds allOf, anyOf, oneOf and properties has been compiled,
\* and the result is the allOf model.
C5_Witness ==
    /\ result # None
    /\ result.op = "compile"
    /\ result.entry = "D7"
    /\ result.ret.k = "val"
    /\ result.ret.v.k = "model"
    /\ result.ret.v.name = Str("AllOfModel")

\* C9: resolve_ref fails with a reference error for a ref that does not
\* begin with "#", and every failure of resolve_ref is a reference error.
C9_ReferenceErrors ==
    (result # None /\ result.op = "resolve_ref") =>
        /\ ~StartsWithHash(EntryRefs[result.entry]) => result.ret.k = "exc"
        /\ result.ret.k = "exc" => result.ret.e.k = "ReferenceError"

(***************************************************************************)
(* Properties of the handlers.                                             *)
(***************************************************************************)
Called(op) == arg.op = op /\ out # None
Props(schema) == Get(schema.d, "properties", Dict(NoDict)).d
Required(schema) == Get(schema.d, "required", List(<<>>))
\* The types a result stands for: the members of a union, or the type itself.
Members(ty) == IF ty.k = "Union" THEN {ty.of[i] : i \in DOMAIN ty.of} ELSE {ty}

\* C2: the model of an allOf list requires exactly the properties that the
\* union of the branches' `required` lists names and that declare no
\* default; every other property keeps its declared default or is optional
\* with default null.
C2_AllOfRequiredUnion ==
    (Called("all_of") /\ out.ok) =>
        LET merged == MergedProperties(arg.schemas.v, Len(arg.schemas.v))
            required == RequiredUnion(arg.schemas.v)
        IN \A n \in DOMAIN out.v.fields :
              LET fi == out.v.fields[n].fi IN
              IF Has(merged[n].d, "default") THEN fi.default = merged[n].d["default"]
              ELSE IF Str(n) \in required
              THEN IsRequired(fi) /\ ~IsNullable(out.v.fields[n].ty)
              ELSE fi.default = Null

\* The three states of a field descriptor made from the schema d.
ExplicitDefault(fi, d) == Has(d, "default") /\ fi.default = d["default"]
ImplicitNull(fi, d) == ~Has(d, "default") /\ fi.default = Null
Trichotomy(fi, d) ==
    \/ ExplicitDefault(fi, d) /\ ~IsRequired(fi) /\ ~ImplicitNull(fi, d)
    \/ ~ExplicitDefault(fi, d) /\ IsRequired(fi) /\ ~ImplicitNull(fi, d)
    \/ ~ExplicitDefault(fi, d) /\ ~IsRequired(fi) /\ ImplicitNull(fi, d)

\* The variant of a oneOf list whose model is m: the last one with m's tag.
VariantOf(schemas, m) ==
    LET tagged == {i \in DOMAIN schemas : Get(Get(Props(schemas[i]), "type", Dict(NoDict)).d, "const", Null) = m.name.of}
    IN schemas[CHOOSE i \in tagged : \A j \in tagged : j <= i]
VariantModels(ty) == IF ty.of.k = "model" THEN {ty.of} ELSE Members(ty.of.of)

\* The descriptors of the result of a call are in one of the three states;
\* `tagToo` says whether the `type` property of a oneOf variant is held to
\* that as well.
DescriptorStates(tagToo) ==
    /\ Called("build_field_info") =>
          /\ Trichotomy(out.v, arg.schema.d)
          /\ ~Has(arg.schema.d, "default") =>
                out.v.default = (IF arg.is_required THEN Undefined ELSE Null)
    /\ (Called("convert_property") /\ out.ok) => Trichotomy(out.v.fi, arg.schema.d)
    /\ (Called("all_of") /\ out.ok) =>
          \A n \in DOMAIN out.v.fields :
             Trichotomy(out.v.fields[n].fi, MergedProperties(arg.schemas.v, Len(arg.schemas.v))[n].d)
    /\ (Called("any_of") /\ out.ok) =>
          \A m \in {x \in Members(out.v) : x.k = "model"} :
             \E i \in DOMAIN arg.schemas.v :
                /\ DOMAIN Props(arg.schemas.v[i]) = DOMAIN m.fields
                /\ \A n \in DOMAIN m.fields : Trichotomy(m.fields[n].fi, Props(arg.schemas.v[i])[n].d)
    /\ (Called("one_of") /\ out.ok) =>
          \A m \in VariantModels(out.v) :
             LET variant == VariantOf(arg.schema.d["oneOf"].v, m) IN
             \A n \in DOMAIN m.fields :
                IF n = "type" /\ ~tagToo
                THEN m.fields[n].fi.default = m.name.of
                ELSE Trichotomy(m.fields[n].fi, Props(variant)[n].d)

\* C6 as stated: every field descriptor, the `type` property of a oneOf
\* variant included, carries the schema's explicit default, or is required
\* without a default, or is optional with an implicit null default.
C6_Trichotomy == DescriptorStates(TRUE)

\* C6 amended: every field descriptor other than the `type` property of a
\* oneOf variant is in exactly one of the three states, and the `type`
\* property carries the discriminator constant as its default; in a plain
\* object a property without a default has no default when it is required
\* and default null when it is not.
C6_TrichotomyButDiscriminator == DescriptorStates(FALSE)

\* A oneOf list has compiled to a variant whose property p is optional with
\* a null default and whose `type` property defaults to the discriminator.
C6_Witness ==
    /\ Called("one_of") /\ out.ok
    /\ \E m \in VariantModels(out.v) :
          /\ "p" \in DOMAIN m.fields /\ m.fields["p"].fi.default = Null
          /\ m.fields["type"].fi.default = Str("dog")

\* The schemas the type-array rule is about.
TypeArrayCall ==
    /\ Called("resolve_type")
    /\ ~Has(arg.schema.d, "const")
    /\ Has(arg.schema.d, "type")
    /\ arg.schema.d["type"].t = "list"
UnsupportedCombination == Fail("TypeError", "unsupported type combination")

\* C7 as stated: when one name is left of the list without its "null"
\* entries the result is a nullable type, and every other list fails with a
\* type error.
C7_TypeArrayRule ==
    TypeArrayCall =>
        IF Len(OtherTypes(arg.schema.d["type"].v)) = 1
        THEN out.ok /\ IsNullable(out.v)
        ELSE out = UnsupportedCombination

\* C7 amended: when the list holds "null" and one entry is left without the
\* "null" entries, the result is the nullable form of what resolve_type
\* gives for {"type": that entry}, and its type error when that fails (as
\* for "array": the list form carries no items over); every other list, a
\* list of one name without "null" included, fails with the type error of an
\* unsupported combination.
C7_TypeArrayRuleWithNull ==
    TypeArrayCall =>
        LET types == arg.schema.d["type"].v
            other == OtherTypes(types)
            single == ResolveType(Typed(other[1].c[1]))
        IN IF InList(Str("null"), types) /\ Len(other) = 1
           THEN IF single.ok
                THEN out.ok /\ IsNullable(out.v) /\ out.v = Union(<<single.v, NoneType>>)
                ELSE ~out.ok /\ out.e.k = "TypeError"
           ELSE out = UnsupportedCombination

\* resolve_type has turned ["string", "null"] into Optional[str].
C7_Witness ==
    /\ TypeArrayCall
    /\ arg.schema.d["type"] = List(<<Str("string"), Str("null")>>)
    /\ out = Ok([k |-> "Union", of |-> <<Prim("str"), NoneType>>])

RecognizedTypes == {"string", "integer", "number", "boolean", "object", "array", "null"}

\* C8: a leaf schema without const and enum whose type is missing, or a
\* string that is no recognized type name, makes resolve_type fail with a
\* type error.
C8_UnknownTypeFails ==
    (/\ Called("resolve_type")
     /\ ~Has(arg.schema.d, "const") /\ ~Has(arg.schema.d, "enum")
     /\ \/ ~Has(arg.schema.d, "type")
        \/ /\ arg.schema.d["type"].t = "str"
           /\ arg.schema.d["type"] \notin {Str(x) : x \in RecognizedTypes}) =>
        ~out.ok /\ out.e.k = "TypeError"

\* C10: the model handle_any_of builds for an object alternative has, for
\* every property, the default (and so the required or optional status)
\* that plain object compilation gives the property.
C10_AnyOfLikePlain ==
    (Called("any_of") /\ out.ok) =>
        \A i \in DOMAIN arg.schemas.v :
           LET S == arg.schemas.v[i] IN
           Get(S.d, "type", Null) = Str("object") =>
              \E m \in {x \in Members(out.v) : x.k = "model"} :
                 /\ DOMAIN m.fields = DOMAIN Props(S)
                 /\ \A n \in DOMAIN m.fields :
                       m.fields[n].fi.default = PlainFieldInfo(Props(S)[n], n, Required(S)).default

\* C11: in the model of a oneOf variant every property other than `type`
\* has the default (and so the required or optional status) that plain
\* object compilation gives the property schema under the variant's
\* `required` list, and the `type` property has the literal discriminator
\* type with the discriminator value as its default.
C11_OneOfLikePlain ==
    (Called("one_of") /\ out.ok) =>
        \A m \in VariantModels(out.v) :
           LET variant == VariantOf(arg.schema.d["oneOf"].v, m) IN
           \A n \in DOMAIN m.fields :
              IF n = "type"
              THEN /\ m.fields[n].ty = Literal(<<m.name.of>>)
                   /\ m.fields[n].fi.default = m.name.of
              ELSE m.fields[n].fi.default =
                      PlainFieldInfo(Props(variant)[n], n, Required(variant)).default

\* A variant that declares a constant at properties.type.const.
DeclaresDiscriminator(variant) ==
    /\ Has(Props(variant), "type")
    /\ Props(variant)["type"].t = "dict"
    /\ Has(Props(variant)["type"].d, "const")
\* The lists the claim says handle_one_of rejects.
RejectedOneOf(schemas) ==
    \/ schemas = <<>>
    \/ \E i \in DOMAIN schemas : schemas[i].t # "dict"
    \/ \E i \in DOMAIN schemas : schemas[i].t = "dict" /\ ~DeclaresDiscriminator(schemas[i])

\* C12: handle_one_of fails with a combiner error exactly when the list is
\* empty, holds an entry that is not a mapping, or holds a variant without
\* a constant at properties.type.const; every other list compiles to a
\* wrapped result with one variant model per variant.
C12_OneOfErrors ==
    Called("one_of") =>
        LET schemas == arg.schema.d["oneOf"].v IN
        /\ (~out.ok /\ out.e.k = "CombinerError") <=> RejectedOneOf(schemas)
        /\ ~RejectedOneOf(schemas) =>
              /\ out.ok
              /\ out.v.k = "RootModel"
              /\ Cardinality(VariantModels(out.v)) = Len(schemas)

\* The compile call in progress, or just ended, is the one on entry n.
Compiling(n) ==
    \/ stack # <<>> /\ stack[1].op = "compile" /\ stack[1].entry = n
    \/ stack = <<>> /\ result # None /\ result.op = "compile" /\ result.entry = n
StackExhausted == ret.k = "exc" /\ ret.e.k = "RecursionError"

\* C13: the recursion between create_pydantic_model, _get_field_type and
\* resolve_ref is bounded by the schema: no compile call, one on a schema
\* whose references cycle through a nested object property included, goes
\* on until the interpreter's recursion limit stops it, and a call that
\* fails ends with a library error, never with RecursionError.
C13_BoundedRecursion ==
    /\ ~StackExhausted
    /\ (result # None /\ result.op = "compile" /\ result.ret.k = "exc") =>
          result.ret.e.k # "RecursionError"

\* Only the schema whose cycle runs through a nested object property
\* exhausts the stack.
OnlyNestExhausts == StackExhausted => Compiling("Nest")

====
